---- MODULE Spec2Model ----
(***************************************************************************)
(* Model of two subsystems of sagemaker-debugger:                          *)
(*   - smdebug/profiler/analysis/python_profile_analysis.py                *)
(*     (PythonProfileAnalysis, cProfileAnalysis, PyinstrumentAnalysis)     *)
(*   - tornasole/pytorch/collection.py                                     *)
(*     (CollectionManager and the module-level singleton functions)        *)
(* SpecProfile is the specification of the first, SpecCollection of the    *)
(* second.                                                                 *)
(***************************************************************************)
EXTENDS Integers, Sequences, FiniteSets

VARIABLES
    artifacts,              \* the profile directory: stat file names as listed, in name order
    cls,                    \* class of the analysis instance
    python_profile_stats,   \* self.python_profile_stats
    result,                 \* value returned by the last public query
    pop,                    \* the last call on the analysis instance
    held,                   \* the list list_profile_stats() last gave its caller
    _collection_manager,    \* the module-level global: <<manager>> or <<>> when unbound
    files,                  \* the file system: path -> saved document
    ret,                    \* outcome of the last call on the collection module
    pc                      \* position inside reset_collections

profileVars == <<artifacts, cls, python_profile_stats, result, pop, held>>
collectionVars == <<_collection_manager, files, ret, pc>>
vars == <<artifacts, cls, python_profile_stats, result, pop, held,
          _collection_manager, files, ret, pc>>

----------------------------------------------------------------------------
(* Bounds *)

MaxArtifacts == 3       \* files in the profile directory
MaxStep == 1            \* profiled steps are -1 .. MaxStep
MaxSecs == 2            \* query times are 0 .. MaxSecs seconds

----------------------------------------------------------------------------
(* Profiler: constants and the artifacts on disk *)

CONVERT_TO_MICROSECS == 1000000
cProfilePythonProfiler_name == "cProfile"
PyinstrumentPythonProfiler_name == "pyinstrument"

ProfilerNames == {cProfilePythonProfiler_name, PyinstrumentPythonProfiler_name}
Steps == -1 .. MaxStep
Classes == {"PythonProfileAnalysis", "cProfileAnalysis", "PyinstrumentAnalysis"}

\* The producer profiles each step once per profiler; the cProfile windows
\* are one second long and disjoint, the pyinstrument windows two seconds
\* long and overlapping.
StartOf(p, s) ==
    IF p = cProfilePythonProfiler_name THEN (s + 1) * 1500000
    ELSE (s + 1) * 1000000 + 500000

EndOf(p, s) ==
    IF p = cProfilePythonProfiler_name THEN StartOf(p, s) + 1000000
    ELSE StartOf(p, s) + 2000000

\* A stat file name encodes profiler, step, start and end time.
FileName(p, s) == <<p, s, StartOf(p, s), EndOf(p, s)>>
AllFileNames == {FileName(p, s) : p \in ProfilerNames, s \in Steps}

\* StepPythonProfileStats built from one file name.
StepPythonProfileStats(f) ==
    [profiler_name |-> f[1], step |-> f[2],
     start_time_us |-> f[3], end_time_us |-> f[4], stats_path |-> f]

in_step_interval(r, lo, hi) == lo <= r.step /\ r.step <= hi

Max(a, b) == IF a >= b THEN a ELSE b
Min(a, b) == IF a <= b THEN a ELSE b

\* true iff [start_time_us, end_time_us] intersects [t0_us, t1_us]
in_time_interval(r, t0_us, t1_us) ==
    Max(r.start_time_us, t0_us) <= Min(r.end_time_us, t1_us)

\* LocalPythonStatsReader.load_python_profile_stats: a full re-enumeration,
\* one record per file, in the order of the directory listing.
load_python_profile_stats(dir) ==
    [i \in 1 .. Len(dir) |-> StepPythonProfileStats(dir[i])]

----------------------------------------------------------------------------
(* Raw payloads *)

\* Content of a cProfile stat file: call counts by function.
StatsFile(path) == [fn \in {"main", "train_step"} |->
                       IF fn = "main" THEN 1 ELSE path[2] + 2]

\* pstats.Stats(): no functions.
EmptyStats == [fn \in {} |-> 0]

\* pstats.Stats.add(path): counts summed by function.
StatsAdd(ps, path) ==
    LET file == StatsFile(path) IN
    [fn \in DOMAIN ps \cup DOMAIN file |->
        (IF fn \in DOMAIN ps THEN ps[fn] ELSE 0)
      + (IF fn \in DOMAIN file THEN file[fn] ELSE 0)]

\* json.load of a pyinstrument stat file: the call tree of that step.
JsonLoad(path) == [root_frame |-> "train_step", step |-> path[2],
                   duration_us |-> path[4] - path[3]]

----------------------------------------------------------------------------
(* Return values of the queries *)

NoResult == [kind |-> "none", list |-> <<>>, ps |-> EmptyStats, json |-> <<>>]
ListResult(l) == [kind |-> "list", list |-> l, ps |-> EmptyStats, json |-> <<>>]
cProfileStats(ps) == [kind |-> "cProfileStats", list |-> <<>>, ps |-> ps, json |-> <<>>]
JsonResult(j) == [kind |-> "json", list |-> <<>>, ps |-> EmptyStats, json |-> j]

\* What a query raises instead of returning.
ErrorResult == [kind |-> "error", list |-> <<>>, ps |-> EmptyStats, json |-> <<>>]

\* The last call: its name and arguments, the length of the list the
\* instance held before it, and whether it repeats the call before it.
NoCall == [op |-> "none", a |-> 0, b |-> 0, before |-> 0, again |-> FALSE]
Call(op, a, b, before) ==
    [op |-> op, a |-> a, b |-> b, before |-> before,
     again |-> pop.op = op /\ pop.a = a /\ pop.b = b]

\* A list in a caller's hands: whether it is the very list the instance
\* holds ("aliased") or another one ("detached"), and whether its contents
\* are still what they were when it was returned.
NotHeld == [state |-> "none", intact |-> TRUE]
Returned == [state |-> "aliased", intact |-> TRUE]

----------------------------------------------------------------------------
(* PythonProfileAnalysis *)

Rebind_in_place(h, old, new) ==
    IF h.state = "aliased" THEN [h EXCEPT !.intact = (old = new)] ELSE h

\* self.python_profile_stats = <list>: the attribute names a new list; a
\* list handed out earlier is left as it is and is the instance's no more.
Rebind(h, old, new) ==
    IF h.state = "aliased" THEN [h EXCEPT !.state = "detached"] ELSE h

PythonProfileAnalysis_refresh_stale(self_stats, dir) == self_stats

PythonProfileAnalysis_refresh_extending(self_stats, dir) ==
    self_stats \o load_python_profile_stats(dir)

\* PythonProfileAnalysis._refresh_python_profile_stats
PythonProfileAnalysis_refresh(self_stats, dir) ==
    load_python_profile_stats(dir)

cProfileAnalysis_refresh_unfiltered(self_stats, dir) ==
    PythonProfileAnalysis_refresh(self_stats, dir)

\* cProfileAnalysis._refresh_python_profile_stats
cProfileAnalysis_refresh(self_stats, dir) ==
    SelectSeq(PythonProfileAnalysis_refresh(self_stats, dir),
              LAMBDA x : x.profiler_name = cProfilePythonProfiler_name)

PyinstrumentAnalysis_refresh(self_stats, dir) ==
    SelectSeq(PythonProfileAnalysis_refresh(self_stats, dir),
              LAMBDA x : x.profiler_name = PyinstrumentPythonProfiler_name)

\* self._refresh_python_profile_stats(), dispatched on the class of self
_refresh_python_profile_stats(c, self_stats, dir) ==
    CASE c = "cProfileAnalysis" -> cProfileAnalysis_refresh(self_stats, dir)
      [] c = "PyinstrumentAnalysis" -> PyinstrumentAnalysis_refresh(self_stats, dir)
      [] OTHER -> PythonProfileAnalysis_refresh(self_stats, dir)

PythonProfileAnalysis_by_time_no_conversion(stats, start_secs, end_secs) ==
    SelectSeq(stats, LAMBDA step_stats :
        in_time_interval(step_stats, start_secs, end_secs))

\* PythonProfileAnalysis.fetch_profile_stats_by_time, after the refresh
PythonProfileAnalysis_by_time(stats, start_secs, end_secs) ==
    LET start_time_since_epoch_in_micros == start_secs * CONVERT_TO_MICROSECS
        end_time_since_epoch_in_micros == end_secs * CONVERT_TO_MICROSECS
    IN  SelectSeq(stats, LAMBDA step_stats :
            in_time_interval(step_stats, start_time_since_epoch_in_micros,
                             end_time_since_epoch_in_micros))

PythonProfileAnalysis_by_step_swapped(stats, start_step, end_step) ==
    SelectSeq(stats, LAMBDA step_stats :
        in_step_interval(step_stats, end_step, start_step))

\* PythonProfileAnalysis.fetch_profile_stats_by_step, after the refresh
PythonProfileAnalysis_by_step(stats, start_step, end_step) ==
    SelectSeq(stats, LAMBDA step_stats :
        in_step_interval(step_stats, start_step, end_step))

RECURSIVE AggregateFrom(_, _, _)
AggregateFrom(ps, stats, i) ==
    IF i > Len(stats) THEN ps
    ELSE AggregateFrom(StatsAdd(ps, stats[i].stats_path), stats, i + 1)

_aggregate_python_profile_stats_accumulating(stats) ==
    cProfileStats(AggregateFrom(result.ps, stats, 1))

_aggregate_python_profile_stats_from_first(stats) ==
    IF stats = <<>> THEN ErrorResult
    ELSE cProfileStats(AggregateFrom(StatsFile(stats[1].stats_path),
                                     SubSeq(stats, 2, Len(stats)), 1))

\* cProfileAnalysis._aggregate_python_profile_stats
_aggregate_python_profile_stats(stats) ==
    cProfileStats(AggregateFrom(EmptyStats, stats, 1))

_load_json_stats_reversed(stats) ==
    JsonResult([i \in 1 .. Len(stats) |->
                   JsonLoad(stats[Len(stats) + 1 - i].stats_path)])

\* PyinstrumentAnalysis._load_json_stats
_load_json_stats(stats) ==
    JsonResult([i \in 1 .. Len(stats) |-> JsonLoad(stats[i].stats_path)])

\* The post-processing each class applies to the selected records.
PostProcess(c, requested_stats) ==
    CASE c = "cProfileAnalysis" -> _aggregate_python_profile_stats(requested_stats)
      [] c = "PyinstrumentAnalysis" -> _load_json_stats(requested_stats)
      [] OTHER -> ListResult(requested_stats)

\* self.fetch_profile_stats_by_step(start_step, end_step) on refreshed stats
fetch_profile_stats_by_step(c, stats, start_step, end_step) ==
    PostProcess(c, PythonProfileAnalysis_by_step(stats, start_step, end_step))

\* self.fetch_profile_stats_by_time(start, end) on refreshed stats
fetch_profile_stats_by_time(c, stats, start_secs, end_secs) ==
    PostProcess(c, PythonProfileAnalysis_by_time(stats, start_secs, end_secs))

fetch_pre_step_zero_not_overridden(c, stats) ==
    ListResult(PythonProfileAnalysis_by_step(stats, -1, 0))

\* PythonProfileAnalysis.fetch_pre_step_zero_profile_stats
fetch_pre_step_zero_profile_stats(c, stats) ==
    fetch_profile_stats_by_step(c, stats, -1, 0)

----------------------------------------------------------------------------
(* Actions of the profiler subsystem *)

\* Position of a file name in the directory listing, which is in name
\* order: profiler name first, then step.
NameRank(f) ==
    (IF f[1] = cProfilePythonProfiler_name THEN 0 ELSE 1) * (MaxStep + 2) + f[2] + 1

\* dir with f inserted at its place in name order
InsertByName(dir, f) ==
    LET before == SelectSeq(dir, LAMBDA g : NameRank(g) < NameRank(f))
        after == SelectSeq(dir, LAMBDA g : NameRank(g) > NameRank(f))
    IN  before \o <<f>> \o after

\* The training process writes one more stat file.
ProducerAdd(f) ==
    /\ Len(artifacts) < MaxArtifacts
    /\ \A i \in 1 .. Len(artifacts) : artifacts[i] # f
    /\ artifacts' = InsertByName(artifacts, f)
    /\ pop' = NoCall
    /\ result' = NoResult
    /\ UNCHANGED <<cls, python_profile_stats, held>>

\* A stat file disappears from the directory.
ProducerRemove(i) ==
    /\ i \in 1 .. Len(artifacts)
    /\ artifacts' = [j \in 1 .. Len(artifacts) - 1 |->
                        IF j < i THEN artifacts[j] ELSE artifacts[j + 1]]
    /\ pop' = NoCall
    /\ result' = NoResult
    /\ UNCHANGED <<cls, python_profile_stats, held>>

list_profile_stats ==
    /\ python_profile_stats' =
           _refresh_python_profile_stats(cls, python_profile_stats, artifacts)
    /\ result' = ListResult(python_profile_stats')
    /\ pop' = Call("list_profile_stats", 0, 0, Len(python_profile_stats))
    /\ held' = Returned
    /\ UNCHANGED <<artifacts, cls>>

by_step(start_step, end_step) ==
    /\ python_profile_stats' =
           _refresh_python_profile_stats(cls, python_profile_stats, artifacts)
    /\ result' = fetch_profile_stats_by_step(cls, python_profile_stats',
                                             start_step, end_step)
    /\ pop' = Call("fetch_profile_stats_by_step", start_step, end_step,
                   Len(python_profile_stats))
    /\ held' = Rebind(held, python_profile_stats, python_profile_stats')
    /\ UNCHANGED <<artifacts, cls>>

by_time(start_secs, end_secs) ==
    /\ python_profile_stats' =
           _refresh_python_profile_stats(cls, python_profile_stats, artifacts)
    /\ result' = fetch_profile_stats_by_time(cls, python_profile_stats',
                                             start_secs, end_secs)
    /\ pop' = Call("fetch_profile_stats_by_time", start_secs, end_secs,
                   Len(python_profile_stats))
    /\ held' = Rebind(held, python_profile_stats, python_profile_stats')
    /\ UNCHANGED <<artifacts, cls>>

pre_step_zero ==
    /\ python_profile_stats' =
           _refresh_python_profile_stats(cls, python_profile_stats, artifacts)
    /\ result' = fetch_pre_step_zero_profile_stats(cls, python_profile_stats')
    /\ pop' = Call("fetch_pre_step_zero_profile_stats", 0, 0,
                   Len(python_profile_stats))
    /\ held' = Rebind(held, python_profile_stats, python_profile_stats')
    /\ UNCHANGED <<artifacts, cls>>

QuerySteps == -1 .. MaxStep
QuerySecs == 0 .. MaxSecs

ProfileNext ==
    \/ \E f \in AllFileNames : ProducerAdd(f)
    \/ \E i \in 1 .. MaxArtifacts : ProducerRemove(i)
    \/ list_profile_stats
    \/ \E lo \in QuerySteps, hi \in QuerySteps : by_step(lo, hi)
    \/ \E t0 \in QuerySecs, t1 \in QuerySecs : by_time(t0, t1)
    \/ pre_step_zero

ProfileInit ==
    /\ artifacts = <<>>
    /\ cls \in Classes
    /\ python_profile_stats = _refresh_python_profile_stats(cls, <<>>, artifacts)
    /\ result = NoResult
    /\ pop = NoCall
    /\ held = NotHeld

----------------------------------------------------------------------------
(* Properties of the profiler subsystem *)

IsQuery == pop.op # "none"

\* Indices of the files on disk that belong to the family class c reads.
FamilyIdx(c) ==
    {i \in 1 .. Len(artifacts) :
        \/ c = "PythonProfileAnalysis"
        \/ c = "cProfileAnalysis" /\ artifacts[i][1] = "cProfile"
        \/ c = "PyinstrumentAnalysis" /\ artifacts[i][1] = "pyinstrument"}

\* l lists exactly the files with index in idx, once each, in listing order.
ListsExactly(l, idx) ==
    /\ Len(l) = Cardinality(idx)
    /\ \A i \in idx :
          LET k == Cardinality({j \in idx : j <= i}) IN
          /\ l[k].stats_path = artifacts[i]
          /\ l[k].profiler_name = artifacts[i][1]
          /\ l[k].step = artifacts[i][2]
          /\ l[k].start_time_us = artifacts[i][3]
          /\ l[k].end_time_us = artifacts[i][4]

StepIdx(lo, hi) ==
    {i \in 1 .. Len(artifacts) : lo <= artifacts[i][2] /\ artifacts[i][2] <= hi}

\* Two closed intervals share a point iff an end point of one lies in both.
Overlaps(s, e, q0, q1) ==
    \E t \in {s, e, q0, q1} : s <= t /\ t <= e /\ q0 <= t /\ t <= q1

TimeIdx(t0_s, t1_s) ==
    {i \in 1 .. Len(artifacts) :
        Overlaps(artifacts[i][3], artifacts[i][4], t0_s * 1000000, t1_s * 1000000)}

\* C1: on the base class, fetch_profile_stats_by_step(lo, hi) returns exactly
\* the records of the current enumeration with lo <= step <= hi, each once,
\* and every returned record is in the list list_profile_stats() gives for
\* the same directory.
C1_StepQueryExact ==
    (cls = "PythonProfileAnalysis" /\ pop.op = "fetch_profile_stats_by_step") =>
        /\ result.kind = "list"
        /\ ListsExactly(result.list, StepIdx(pop.a, pop.b))
        /\ \A j \in 1 .. Len(result.list) :
              \E k \in 1 .. Len(load_python_profile_stats(artifacts)) :
                  load_python_profile_stats(artifacts)[k] = result.list[j]

C1_Witness ==
    /\ cls = "PythonProfileAnalysis"
    /\ pop.op = "fetch_profile_stats_by_step"
    /\ pop.a = -1
    /\ Len(result.list) >= 2
    /\ Len(result.list) < Len(artifacts)

\* C2: on the base class, fetch_profile_stats_by_time(t0_s, t1_s) returns
\* exactly the records whose [start_time_us, end_time_us] window overlaps
\* [t0_s * 1e6, t1_s * 1e6].
C2_TimeQueryExact ==
    (cls = "PythonProfileAnalysis" /\ pop.op = "fetch_profile_stats_by_time") =>
        /\ result.kind = "list"
        /\ ListsExactly(result.list, TimeIdx(pop.a, pop.b))

\* A returned record starts before and ends after the query window, and a
\* record outside the window is left out.
C2_Witness ==
    /\ cls = "PythonProfileAnalysis"
    /\ pop.op = "fetch_profile_stats_by_time"
    /\ \E j \in 1 .. Len(result.list) :
          /\ result.list[j].start_time_us < pop.a * 1000000
          /\ result.list[j].end_time_us > pop.b * 1000000
    /\ Len(result.list) < Len(artifacts)

\* C3: every query is answered from the directory as it is at the call:
\* after a query, python_profile_stats lists exactly the files of the
\* instance's family that are on disk now, list_profile_stats() returns that
\* list, and the interval queries of the base class select from it.
C3_RefreshOnQuery ==
    IsQuery =>
        /\ ListsExactly(python_profile_stats, FamilyIdx(cls))
        /\ pop.op = "list_profile_stats" =>
              /\ result.kind = "list"
              /\ ListsExactly(result.list, FamilyIdx(cls))
        /\ (cls = "PythonProfileAnalysis" /\ pop.op = "fetch_pre_step_zero_profile_stats") =>
              ListsExactly(result.list, StepIdx(-1, 0))
        /\ (cls = "PythonProfileAnalysis" /\ pop.op = "fetch_profile_stats_by_step") =>
              ListsExactly(result.list, StepIdx(pop.a, pop.b))
        /\ (cls = "PythonProfileAnalysis" /\ pop.op = "fetch_profile_stats_by_time") =>
              ListsExactly(result.list, TimeIdx(pop.a, pop.b))

\* list_profile_stats() on an instance that had already seen files in an
\* earlier query (the directory was empty at construction) returns more.
C3_Witness ==
    /\ pop.op = "list_profile_stats"
    /\ pop.before >= 1
    /\ Len(result.list) > pop.before

\* Sum of f(i) over a finite set of indices.
RECURSIVE SumOver(_, _)
SumOver(idx, f) ==
    IF idx = {} THEN 0
    ELSE LET i == CHOOSE x \in idx : TRUE IN f[i] + SumOver(idx \ {i}, f)

\* C4: fetch_pre_step_zero_profile_stats() returns what the class's own
\* fetch_profile_stats_by_step(-1, 0) returns: built from the records of the
\* family with step -1 or 0 and no others, post-processed as the class does
\* (list, aggregate, or parsed documents).
C4_PreStepZero ==
    pop.op = "fetch_pre_step_zero_profile_stats" =>
        LET idx == FamilyIdx(cls) \cap
                     {i \in 1 .. Len(artifacts) : artifacts[i][2] \in {-1, 0}}
        IN
        /\ result = fetch_profile_stats_by_step(cls, python_profile_stats, -1, 0)
        /\ cls = "PythonProfileAnalysis" =>
              /\ result.kind = "list"
              /\ ListsExactly(result.list, idx)
        /\ cls = "cProfileAnalysis" =>
              /\ result.kind = "cProfileStats"
              /\ idx = {} => result.ps = EmptyStats
              /\ idx # {} =>
                    /\ DOMAIN result.ps = {"main", "train_step"}
                    /\ result.ps["main"] = Cardinality(idx)
                    /\ result.ps["train_step"] =
                          SumOver(idx, [i \in idx |-> artifacts[i][2] + 2])
        /\ cls = "PyinstrumentAnalysis" =>
              /\ result.kind = "json"
              /\ Len(result.json) = Cardinality(idx)
              /\ \A i \in idx :
                    result.json[Cardinality({j \in idx : j <= i})].step
                        = artifacts[i][2]

\* A subclass instance answers with records of step -1 and step 0 while a
\* later step of its family is on disk.
C4_Witness ==
    /\ pop.op = "fetch_pre_step_zero_profile_stats"
    /\ cls = "cProfileAnalysis"
    /\ result.kind = "cProfileStats"
    /\ result.ps # EmptyStats
    /\ result.ps["main"] = 2
    /\ Len(python_profile_stats) = 3

IntervalOps == {"fetch_profile_stats_by_step", "fetch_profile_stats_by_time"}

\* Indices of the files an interval query or the pre-step-zero query selects.
SelectedIdx ==
    FamilyIdx(cls) \cap
        (CASE pop.op = "fetch_profile_stats_by_step" -> StepIdx(pop.a, pop.b)
           [] pop.op = "fetch_profile_stats_by_time" -> TimeIdx(pop.a, pop.b)
           [] pop.op = "fetch_pre_step_zero_profile_stats" -> StepIdx(-1, 0)
           [] OTHER -> 1 .. Len(artifacts))

\* ps counts each file with index in idx exactly once.
CountsOnce(ps, idx) ==
    IF idx = {} THEN ps = EmptyStats
    ELSE /\ DOMAIN ps = {"main", "train_step"}
         /\ ps["main"] = Cardinality(idx)
         /\ ps["train_step"] = SumOver(idx, [i \in idx |-> artifacts[i][2] + 2])

\* C12: a cProfileAnalysis interval query aggregates from an empty
\* statistics object and adds each selected payload exactly once; the same
\* query repeated on an unchanged directory returns identical counts.
C12_IdempotentAggregation ==
    /\ []((cls = "cProfileAnalysis" /\ pop.op \in IntervalOps) =>
            /\ result.kind = "cProfileStats"
            /\ CountsOnce(result.ps, SelectedIdx))
    /\ [][(/\ cls = "cProfileAnalysis"
           /\ pop.op \in IntervalOps
           /\ pop'.op = pop.op /\ pop'.a = pop.a /\ pop'.b = pop.b
           /\ artifacts' = artifacts) => result' = result]_vars

\* The same time query answered a second time, two files aggregated.
C12_Witness ==
    /\ cls = "cProfileAnalysis"
    /\ pop.op = "fetch_profile_stats_by_time"
    /\ pop.again
    /\ result.kind = "cProfileStats"
    /\ result.ps # EmptyStats
    /\ result.ps["main"] = 2

\* C13: a query that finds no artifacts, or none in the requested interval,
\* returns normally: the base class and PyinstrumentAnalysis an empty list,
\* cProfileAnalysis an aggregate without functions.
C13_NoDataNoError ==
    IsQuery =>
        /\ result.kind # "error"
        /\ (pop.op # "list_profile_stats" /\ SelectedIdx = {}) =>
              /\ cls = "PythonProfileAnalysis" => result = ListResult(<<>>)
              /\ cls = "PyinstrumentAnalysis" => result = JsonResult(<<>>)
              /\ cls = "cProfileAnalysis" =>
                    /\ result.kind = "cProfileStats"
                    /\ DOMAIN result.ps = {}
        /\ (pop.op = "list_profile_stats" /\ FamilyIdx(cls) = {}) =>
              result = ListResult(<<>>)

\* cProfile files are on disk and none lies in the requested steps.
C13_Witness ==
    /\ cls = "cProfileAnalysis"
    /\ pop.op = "fetch_profile_stats_by_step"
    /\ Len(python_profile_stats) >= 1
    /\ SelectedIdx = {}
    /\ pop.a <= pop.b
    /\ result.kind = "cProfileStats"

\* No two positions of l hold a record of the same profiler and step.
OnePerProfilerAndStep(l) ==
    \A i \in 1 .. Len(l) : \A j \in 1 .. Len(l) :
        (l[i].profiler_name = l[j].profiler_name /\ l[i].step = l[j].step)
            => i = j

\* C14: the list the instance holds, and every list list_profile_stats()
\* returns, has at most one record per (profiler_name, step) pair, whatever
\* files were written or removed before the query.
C14_RecordUniqueness ==
    /\ OnePerProfilerAndStep(python_profile_stats)
    /\ pop.op = "list_profile_stats" =>
          /\ result.kind = "list"
          /\ OnePerProfilerAndStep(result.list)

\* list_profile_stats() on an instance that already held records returns
\* records of both profilers for the same step.
C14_Witness ==
    /\ pop.op = "list_profile_stats"
    /\ pop.before >= 1
    /\ \E i \in 1 .. Len(result.list) : \E j \in 1 .. Len(result.list) :
          /\ result.list[i].step = result.list[j].step
          /\ result.list[i].profiler_name # result.list[j].profiler_name

\* The identity string a subclass filters on.
FamilyName(c) ==
    IF c = "cProfileAnalysis" THEN "cProfile" ELSE "pyinstrument"

\* C15: on a cProfileAnalysis or PyinstrumentAnalysis instance,
\* python_profile_stats never holds a record of the other family; after a
\* call it holds exactly the enumerated records of the instance's own
\* family, list_profile_stats() returns only those, and aggregation and
\* loading are fed by files of that family only.
C15_FamilyFilter ==
    cls # "PythonProfileAnalysis" =>
        /\ \A k \in 1 .. Len(python_profile_stats) :
              python_profile_stats[k].profiler_name = FamilyName(cls)
        /\ IsQuery =>
              /\ Len(python_profile_stats) =
                    Cardinality({i \in 1 .. Len(artifacts) :
                                    artifacts[i][1] = FamilyName(cls)})
              /\ \A i \in 1 .. Len(artifacts) :
                    (artifacts[i][1] = FamilyName(cls)) <=>
                        \E k \in 1 .. Len(python_profile_stats) :
                            python_profile_stats[k].stats_path = artifacts[i]
        /\ pop.op = "list_profile_stats" =>
              \A k \in 1 .. Len(result.list) :
                  result.list[k].profiler_name = FamilyName(cls)
        /\ (IsQuery /\ pop.op # "list_profile_stats" /\ cls = "cProfileAnalysis") =>
              CountsOnce(result.ps,
                         {i \in SelectedIdx : artifacts[i][1] = "cProfile"})
        /\ (IsQuery /\ pop.op # "list_profile_stats" /\ cls = "PyinstrumentAnalysis") =>
              \A k \in 1 .. Len(result.json) :
                  \E i \in 1 .. Len(artifacts) :
                      /\ artifacts[i][1] = "pyinstrument"
                      /\ result.json[k] = JsonLoad(artifacts[i])

\* Both families are on disk and the cProfileAnalysis instance lists only
\* its own.
C15_Witness ==
    /\ cls = "cProfileAnalysis"
    /\ pop.op = "list_profile_stats"
    /\ Len(result.list) >= 1
    /\ \E i \in 1 .. Len(artifacts) : artifacts[i][1] = "pyinstrument"
    /\ \E i \in 1 .. Len(artifacts) : artifacts[i][1] = "cProfile"
    /\ Len(result.list) < Len(artifacts)

\* C16: the interval queries of PyinstrumentAnalysis return one parsed
\* document per selected pyinstrument record, the k-th document loaded from
\* the k-th selected record, in the order of the filtered list.
C16_OneDocumentPerRecord ==
    (cls = "PyinstrumentAnalysis" /\ pop.op \in IntervalOps) =>
        /\ result.kind = "json"
        /\ Len(result.json) = Cardinality(SelectedIdx)
        /\ \A i \in SelectedIdx :
              result.json[Cardinality({j \in SelectedIdx : j <= i})]
                  = JsonLoad(artifacts[i])
        /\ \A k \in 1 .. Len(result.json) : \A m \in 1 .. Len(result.json) :
              result.json[k] = result.json[m] => k = m

\* Two documents returned out of three pyinstrument records.
C16_Witness ==
    /\ cls = "PyinstrumentAnalysis"
    /\ pop.op = "fetch_profile_stats_by_step"
    /\ Len(result.json) = 2
    /\ result.json[1].step < result.json[2].step
    /\ Len(python_profile_stats) = 3

\* C17: a refresh binds python_profile_stats to a new list: a list that
\* list_profile_stats() returned keeps its contents through later queries
\* and changes of the directory, after any other query it is no longer the
\* list the instance holds, and the list the instance holds after a query
\* has no record that is missing from the enumeration of that query.
C17_RefreshReplaces ==
    /\ held.intact
    /\ (IsQuery /\ pop.op # "list_profile_stats") => held.state # "aliased"
    /\ IsQuery =>
          \A k \in 1 .. Len(python_profile_stats) :
              \E i \in 1 .. Len(load_python_profile_stats(artifacts)) :
                  load_python_profile_stats(artifacts)[i] = python_profile_stats[k]

\* A list was handed out, files were removed, and a later query left the
\* instance with fewer records than it held before.
C17_Witness ==
    /\ held.state = "detached"
    /\ held.intact
    /\ IsQuery
    /\ pop.op # "list_profile_stats"
    /\ pop.before >= 2
    /\ Len(python_profile_stats) < pop.before

----------------------------------------------------------------------------
(* Collections: bounds and inputs *)

MaxTensorNames == 1     \* explicit tensor names per collection

CollectionKeys_WEIGHTS == "weights"
CollectionKeys_BIASES == "biases"
CollectionKeys_GRADIENTS == "gradients"
CollectionKeys_LOSSES == "losses"

\* Tensor names, as the sequence of their dot-separated parts.
LayerWeight == <<"layer1", "weight">>           \* "layer1.weight"
GradientLayerWeight == <<"gradient", "layer1", "weight">>
TensorNames == {LayerWeight, GradientLayerWeight}

\* Names and patterns the callers use.
CallerNames == {CollectionKeys_WEIGHTS, "custom"}
IncludeNames == {CollectionKeys_WEIGHTS}
CallerPatterns == {"relu"}
AddCalls == {<<CollectionKeys_WEIGHTS, LayerWeight>>,
             <<CollectionKeys_WEIGHTS, GradientLayerWeight>>,
             <<"custom", LayerWeight>>}

\* Paths the callers use; only those in DOMAIN files can hold a file.
SavedPath == "collections.json"
ShippedPath == "shipped.json"
MissingPath == "missing.json"
CorruptPath == "corrupt.json"

----------------------------------------------------------------------------
(* Collection *)

\* Collection(name): no patterns, no names
Collection(name) ==
    [name |-> name, include_regexes |-> <<>>, exclude_regexes |-> <<>>,
     tensor_names |-> <<>>]

InSeq(x, sq) == \E i \in 1 .. Len(sq) : sq[i] = x

\* Collection.include(pattern): appended to the ordered set of patterns
Collection_include(c, pattern) ==
    IF InSeq(pattern, c.include_regexes) THEN c
    ELSE [c EXCEPT !.include_regexes = Append(@, pattern)]

\* Collection.add(name): appended to the ordered set of explicit names
Collection_add(c, tname) ==
    IF InSeq(tname, c.tensor_names) THEN c
    ELSE [c EXCEPT !.tensor_names = Append(@, tname)]

StartsWith(tname, part) == Len(tname) >= 1 /\ tname[1] = part
Contains(tname, part) == InSeq(part, tname)

\* re.search(pattern, name) for the patterns in use
Matches(pattern, tname) ==
    CASE pattern = "^(?!gradient).*weight" ->
             ~StartsWith(tname, "gradient") /\ Contains(tname, "weight")
      [] pattern = "^(?!gradient).*bias" ->
             ~StartsWith(tname, "gradient") /\ Contains(tname, "bias")
      [] pattern = "^gradient" -> StartsWith(tname, "gradient")
      [] pattern = "[Ll]oss" -> Contains(tname, "loss") \/ Contains(tname, "Loss")
      [] pattern = "weight" -> Contains(tname, "weight")
      [] pattern = "bias" -> Contains(tname, "bias")
      [] pattern = "relu" -> Contains(tname, "relu")
      [] OTHER -> FALSE

\* Membership of a tensor name in a collection.
IsMember(c, tname) ==
    \/ InSeq(tname, c.tensor_names)
    \/ /\ \E i \in 1 .. Len(c.include_regexes) : Matches(c.include_regexes[i], tname)
       /\ \A i \in 1 .. Len(c.exclude_regexes) : ~Matches(c.exclude_regexes[i], tname)

----------------------------------------------------------------------------
(* CollectionManager: a manager is the sequence of its collections, in    *)
(* insertion order.  Operations return an outcome: the manager and the     *)
(* error raised, if any.                                                   *)

Ok(cm) == [err |-> "none", cm |-> cm]
Raise(err, cm) == [err |-> err, cm |-> cm]

IndexOf(cm, name) ==
    IF \E i \in 1 .. Len(cm) : cm[i].name = name
    THEN CHOOSE i \in 1 .. Len(cm) : cm[i].name = name
    ELSE 0

Has(cm, name) == IndexOf(cm, name) # 0

\* BaseCollectionManager.create_collection(name, cls)
Base_create_collection(cm, name) ==
    IF Has(cm, name) THEN Raise("DuplicateName", cm)
    ELSE Ok(Append(cm, Collection(name)))

create_collection_overwrite(cm, name) ==
    IF Has(cm, name) THEN Ok([cm EXCEPT ![IndexOf(cm, name)] = Collection(name)])
    ELSE Ok(Append(cm, Collection(name)))

\* CollectionManager.create_collection
create_collection(cm, name) == Base_create_collection(cm, name)

\* BaseCollectionManager.get(name, create)
get(cm, name, create) ==
    IF Has(cm, name) THEN Ok(cm)
    ELSE IF create THEN create_collection(cm, name)
    ELSE Raise("NotFound", cm)

\* self.get(name).include(pattern)
get_include(cm, name, pattern, create) ==
    LET g == get(cm, name, create) IN
    IF g.err # "none" THEN g
    ELSE Ok([g.cm EXCEPT ![IndexOf(g.cm, name)] = Collection_include(@, pattern)])

\* BaseCollectionManager.__init__(create_default)
Base_init(create_default) ==
    IF create_default
    THEN <<Collection(CollectionKeys_WEIGHTS), Collection(CollectionKeys_BIASES),
           Collection(CollectionKeys_GRADIENTS), Collection(CollectionKeys_LOSSES)>>
    ELSE <<>>

\* o.then(f): f applied to the manager unless o already raised
Then(o, name, pattern) ==
    IF o.err # "none" THEN o ELSE get_include(o.cm, name, pattern, FALSE)

_register_default_collections_plain_weight(cm) ==
    Then(Then(Then(Then(Ok(cm),
        CollectionKeys_WEIGHTS, "weight"),
        CollectionKeys_BIASES, "^(?!gradient).*bias"),
        CollectionKeys_GRADIENTS, "^gradient"),
        CollectionKeys_LOSSES, "[Ll]oss")

_register_default_collections_plain_bias(cm) ==
    Then(Then(Then(Then(Ok(cm),
        CollectionKeys_WEIGHTS, "^(?!gradient).*weight"),
        CollectionKeys_BIASES, "bias"),
        CollectionKeys_GRADIENTS, "^gradient"),
        CollectionKeys_LOSSES, "[Ll]oss")

\* CollectionManager._register_default_collections
_register_default_collections(cm) ==
    Then(Then(Then(Then(Ok(cm),
        CollectionKeys_WEIGHTS, "^(?!gradient).*weight"),
        CollectionKeys_BIASES, "^(?!gradient).*bias"),
        CollectionKeys_GRADIENTS, "^gradient"),
        CollectionKeys_LOSSES, "[Ll]oss")

CollectionManager_init_no_register(create_default) ==
    Ok(Base_init(create_default))

\* CollectionManager.__init__(create_default)
CollectionManager_init(create_default) ==
    IF create_default THEN _register_default_collections(Base_init(create_default))
    ELSE Ok(Base_init(create_default))

----------------------------------------------------------------------------
(* Persistence.  A Python string is either a path or the text of a saved   *)
(* document; a document is the sequence of its lines, one per collection.  *)

PathStr(p) == [kind |-> "path", path |-> p, text |-> <<>>]
DocStr(d) == [kind |-> "document", path |-> "", text |-> d]

\* Collection.export(): one line
Collection_export(c) ==
    <<c.name, c.include_regexes, c.exclude_regexes, c.tensor_names>>

\* Collection.load(line)
Collection_load(line) ==
    [name |-> line[1], include_regexes |-> line[2], exclude_regexes |-> line[3],
     tensor_names |-> line[4]]

\* A line Collection.load can parse has the four parts.
WellFormed(line) == Len(line) = 4

FirstOf(idx) == CHOOSE i \in idx : \A j \in idx : i <= j

\* The saved form of a manager.
export_document(cm) == [i \in 1 .. Len(cm) |-> Collection_export(cm[i])]

\* The manager a document describes: built from an empty manager.
parse_document(d) == [i \in 1 .. Len(d) |-> Collection_load(d[i])]

\* open(filename): the file's content, if the string names a file on disk
FileExists(fs, s) == s.kind = "path" /\ s.path \in DOMAIN fs /\ fs[s.path] # <<>>

\* BaseCollectionManager.load(cls, filename, coll_class)
Base_load(fs, filename) ==
    IF FileExists(fs, filename)
    THEN LET d == fs[filename.path][1]
             bad == {i \in 1 .. Len(d) : ~WellFormed(d[i])}
         IN  IF bad = {} THEN Ok(parse_document(d))
             ELSE Raise("DeserializeError",
                        parse_document(SubSeq(d, 1, FirstOf(bad) - 1)))
    ELSE Raise("FileNotFound", <<>>)

\* BaseCollectionManager.load_from_string(s, coll_class)
Base_load_from_string(s) == Ok(parse_document(s.text))

CollectionManager_load_into_default(fs, filename) ==
    LET o == Base_load(fs, filename) IN
    IF o.err # "none" THEN o
    ELSE Ok(CollectionManager_init(TRUE).cm \o o.cm)

\* CollectionManager.load
CollectionManager_load(fs, filename) == Base_load(fs, filename)

\* CollectionManager.load_from_string
CollectionManager_load_from_string(fs, s) == Base_load(fs, s)

----------------------------------------------------------------------------
(* Module-level functions of tornasole/pytorch/collection.py               *)

Bound == _collection_manager # <<>>
Current == _collection_manager[1]

NoRet == [op |-> "none", name |-> "", tname |-> <<>>, err |-> "none",
          value |-> <<>>, changed |-> FALSE]
Ret(op, name, tname, err, value, changed) ==
    [op |-> op, name |-> name, tname |-> tname, err |-> err, value |-> value,
     changed |-> changed]

\* Effect of a call that works on the current manager: NameError when the
\* global is unbound, else the outcome is stored back (managers are mutated
\* in place).
OnCurrent(op, name, tname, o) ==
    /\ pc = "idle"
    /\ IF ~Bound
       THEN /\ ret' = Ret(op, name, tname, "NameError", <<>>, FALSE)
            /\ UNCHANGED _collection_manager
       ELSE /\ _collection_manager' = <<o.cm>>
            /\ ret' = Ret(op, name, tname, o.err, <<>>, o.cm # Current)
    /\ UNCHANGED <<files, pc>>

get_collection_no_create(cm, collection_name) == get(cm, collection_name, FALSE)

\* get_collection(collection_name), on the current manager
get_collection(cm, collection_name) == get(cm, collection_name, TRUE)

\* get_collection(collection_name).add(args)
add_to_collection(cm, collection_name, args) ==
    LET g == get_collection(cm, collection_name) IN
    IF g.err # "none" THEN g
    ELSE Ok([g.cm EXCEPT ![IndexOf(g.cm, collection_name)] = Collection_add(@, args)])

\* get_collection(name).include(pattern)
include_in_collection(cm, collection_name, pattern) ==
    LET g == get_collection(cm, collection_name) IN
    IF g.err # "none" THEN g
    ELSE Ok([g.cm EXCEPT ![IndexOf(g.cm, collection_name)] =
                 Collection_include(@, pattern)])

\* get_collection_manager().create_collection(name)
CreateCollection(name) ==
    OnCurrent("create_collection", name, <<>>,
              IF Bound THEN create_collection(Current, name) ELSE Ok(<<>>))

GetCollection(name) ==
    OnCurrent("get_collection", name, <<>>,
              IF Bound THEN get_collection(Current, name) ELSE Ok(<<>>))

Include(name, pattern) ==
    OnCurrent("include", name, <<>>,
              IF Bound THEN include_in_collection(Current, name, pattern)
              ELSE Ok(<<>>))

AddToCollection(name, tname) ==
    /\ IF Bound /\ Has(Current, name)
       THEN Len(Current[IndexOf(Current, name)].tensor_names) < MaxTensorNames
       ELSE TRUE
    /\ OnCurrent("add_to_collection", name, tname,
                 IF Bound THEN add_to_collection(Current, name, tname)
                 ELSE Ok(<<>>))

\* get_collection_manager()
GetCollectionManager ==
    /\ pc = "idle"
    /\ ret' = IF Bound THEN Ret("get_collection_manager", "", <<>>, "none", _collection_manager, FALSE)
              ELSE Ret("get_collection_manager", "", <<>>, "NameError", <<>>, FALSE)
    /\ UNCHANGED <<_collection_manager, files, pc>>

\* get_collections()
GetCollections ==
    /\ pc = "idle"
    /\ ret' = IF Bound THEN Ret("get_collections", "", <<>>, "none", _collection_manager, FALSE)
              ELSE Ret("get_collections", "", <<>>, "NameError", <<>>, FALSE)
    /\ UNCHANGED <<_collection_manager, files, pc>>

\* get_collection_manager().export(path): the whole manager in one document
Export(path) ==
    /\ pc = "idle"
    /\ Bound
    /\ files' = [files EXCEPT ![path] = <<export_document(Current)>>]
    /\ ret' = Ret("export", path, <<>>, "none", <<>>, FALSE)
    /\ UNCHANGED <<_collection_manager, pc>>

LoadCollections_binds_partial(path) ==
    /\ pc = "idle"
    /\ LET o == CollectionManager_load(files, PathStr(path)) IN
       /\ _collection_manager' = <<o.cm>>
       /\ ret' = Ret("load_collections", path, <<>>, o.err, <<>>,
                     _collection_manager' # _collection_manager)
    /\ UNCHANGED <<files, pc>>

\* load_collections(path)
LoadCollections(path) ==
    /\ pc = "idle"
    /\ LET o == CollectionManager_load(files, PathStr(path)) IN
       /\ _collection_manager' = IF o.err = "none" THEN <<o.cm>> ELSE _collection_manager
       /\ ret' = Ret("load_collections", path, <<>>, o.err, <<>>,
                     _collection_manager' # _collection_manager)
    /\ UNCHANGED <<files, pc>>

\* CollectionManager.load(path), called by a client on a saved file
Load(path) ==
    /\ pc = "idle"
    /\ LET o == CollectionManager_load(files, PathStr(path)) IN
       ret' = Ret("load", path, <<>>, o.err,
                  IF o.err = "none" THEN <<o.cm>> ELSE <<>>, FALSE)
    /\ UNCHANGED <<_collection_manager, files, pc>>

\* CollectionManager.load_from_string(s), called by a client on the saved
\* form of the current manager
LoadFromString ==
    /\ pc = "idle"
    /\ Bound
    /\ LET o == CollectionManager_load_from_string(files,
                    DocStr(export_document(Current))) IN
       ret' = Ret("load_from_string", "", <<>>, o.err,
                  IF o.err = "none" THEN <<o.cm>> ELSE <<>>, FALSE)
    /\ UNCHANGED <<_collection_manager, files, pc>>

\* reset_collections(), line 51: del _collection_manager
ResetDel ==
    /\ pc = "idle"
    /\ IF Bound
       THEN /\ _collection_manager' = <<>>
            /\ pc' = "reset_deleted"
            /\ ret' = Ret("reset_collections", "", <<>>, "running", <<>>,
                          Current # CollectionManager_init(TRUE).cm)
       ELSE /\ ret' = Ret("reset_collections", "", <<>>, "NameError", <<>>, FALSE)
            /\ UNCHANGED <<_collection_manager, pc>>
    /\ UNCHANGED files

\* reset_collections(), line 52: _collection_manager = CollectionManager()
ResetConstruct ==
    /\ pc = "reset_deleted"
    /\ LET o == CollectionManager_init(TRUE) IN
       /\ _collection_manager' = IF o.err = "none" THEN <<o.cm>> ELSE _collection_manager
       /\ ret' = Ret("reset_collections", "", <<>>, o.err, <<>>, ret.changed)
    /\ pc' = "idle"
    /\ UNCHANGED files

\* The document shipped with the model: one collection selecting weights
\* but not gradients.
ShippedDocument ==
    << <<CollectionKeys_WEIGHTS, <<"weight">>, <<"^gradient">>, <<>> >> >>

\* A document cut off in its second line.
CorruptDocument ==
    << <<"custom", <<"relu">>, <<>>, <<>> >>, <<CollectionKeys_BIASES>> >>

CollectionInit ==
    /\ _collection_manager = <<CollectionManager_init(TRUE).cm>>
    /\ files = [p \in {SavedPath, ShippedPath, CorruptPath} |->
                   CASE p = ShippedPath -> <<ShippedDocument>>
                     [] p = CorruptPath -> <<CorruptDocument>>
                     [] OTHER -> <<>>]
    /\ ret = NoRet
    /\ pc = "idle"

CollectionNext ==
    \/ \E n \in CallerNames : CreateCollection(n)
    \/ \E n \in CallerNames : GetCollection(n)
    \/ \E n \in IncludeNames, p \in CallerPatterns : Include(n, p)
    \/ \E c \in AddCalls : AddToCollection(c[1], c[2])
    \/ GetCollectionManager
    \/ GetCollections
    \/ Export(SavedPath)
    \/ \E p \in {SavedPath, ShippedPath, MissingPath, CorruptPath} : LoadCollections(p)
    \/ \E p \in {SavedPath, ShippedPath, MissingPath} : Load(p)
    \/ LoadFromString
    \/ ResetDel
    \/ ResetConstruct

----------------------------------------------------------------------------
(* Properties of the collection subsystem *)

CollectionOf(cm, name) == cm[IndexOf(cm, name)]

\* C5: in every reachable state, the intermediate states of
\* reset_collections and load_collections included, the module-level
\* _collection_manager is bound to a manager.
C5_SingletonAlwaysBound == Bound

\* C6: create_collection(name) with a name already in the manager fails with
\* a naming conflict and leaves the manager as it was: same names, and the
\* collection under that name keeps its patterns and tensor names.
C6_DuplicateCreateFails ==
    [][(ret'.op = "create_collection" /\ Bound /\ Has(Current, ret'.name)) =>
          /\ ret'.err = "DuplicateName"
          /\ Bound'
          /\ Len(Current') = Len(Current)
          /\ \A i \in 1 .. Len(Current) : Current'[i] = Current[i]]_vars

C6_Witness ==
    /\ ret.op = "create_collection"
    /\ ret.err = "DuplicateName"
    /\ Bound
    /\ CollectionOf(Current, ret.name).include_regexes # <<>>
    /\ CollectionOf(Current, ret.name).tensor_names # <<>>

\* C7: get_collection(name) and add_to_collection(name, args) never fail:
\* on a missing name exactly one empty Collection is appended under that
\* name (holding args after add_to_collection) and no other collection
\* changes; on a present name nothing is added and the collection keeps its
\* contents (plus args after add_to_collection).
C7_GetCreates ==
    [][(ret'.op \in {"get_collection", "add_to_collection"} /\ Bound) =>
          LET n == ret'.name
              isAdd == ret'.op = "add_to_collection"
          IN
          /\ ret'.err = "none"
          /\ Bound'
          /\ Cardinality({i \in 1 .. Len(Current') : Current'[i].name = n}) = 1
          /\ IF Has(Current, n)
             THEN /\ Len(Current') = Len(Current)
                  /\ \A i \in 1 .. Len(Current) :
                        /\ Current'[i].name = Current[i].name
                        /\ Current'[i].include_regexes = Current[i].include_regexes
                        /\ Current'[i].exclude_regexes = Current[i].exclude_regexes
                        /\ (isAdd /\ Current[i].name = n) =>
                              \A k \in 1 .. Len(Current[i].tensor_names) :
                                  Current'[i].tensor_names[k] = Current[i].tensor_names[k]
                        /\ ~(isAdd /\ Current[i].name = n) =>
                              Current'[i].tensor_names = Current[i].tensor_names
             ELSE /\ Len(Current') = Len(Current) + 1
                  /\ \A i \in 1 .. Len(Current) : Current'[i] = Current[i]
                  /\ Current'[Len(Current')].name = n
                  /\ Current'[Len(Current')].include_regexes = <<>>
                  /\ Current'[Len(Current')].exclude_regexes = <<>>
                  /\ Current'[Len(Current')].tensor_names =
                        IF isAdd THEN <<ret'.tname>> ELSE <<>>]_vars

\* get_collection has just created the missing collection.
C7_Witness ==
    /\ ret.op = "get_collection"
    /\ ret.err = "none"
    /\ ret.changed
    /\ Bound
    /\ CollectionOf(Current, ret.name) = Collection(ret.name)
    /\ Len(Current) = 5

DefaultManager ==
    << [name |-> "weights", include_regexes |-> <<"^(?!gradient).*weight">>,
        exclude_regexes |-> <<>>, tensor_names |-> <<>>],
       [name |-> "biases", include_regexes |-> <<"^(?!gradient).*bias">>,
        exclude_regexes |-> <<>>, tensor_names |-> <<>>],
       [name |-> "gradients", include_regexes |-> <<"^gradient">>,
        exclude_regexes |-> <<>>, tensor_names |-> <<>>],
       [name |-> "losses", include_regexes |-> <<"[Ll]oss">>,
        exclude_regexes |-> <<>>, tensor_names |-> <<>>] >>

\* The state right after CollectionManager() at import, or right after a
\* completed reset_collections().
Fresh == pc = "idle" /\ ret.op \in {"none", "reset_collections"} /\ ret.err = "none"

\* C8: right after construction with defaults and right after every
\* reset_collections(), the current manager holds weights, biases, gradients
\* and losses with their default include patterns, no explicit tensor names,
\* and nothing of the manager it replaced.
C8_DefaultBootstrapping ==
    Fresh => Bound /\ Current = DefaultManager

\* reset_collections() has replaced a manager that differed from the default.
C8_Witness ==
    /\ Fresh
    /\ ret.op = "reset_collections"
    /\ ret.changed
    /\ Bound

\* Membership stated on sets: explicitly added, or some include pattern
\* matches and no exclude pattern does.
MemberBySets(c, tname) ==
    \/ tname \in {c.tensor_names[k] : k \in 1 .. Len(c.tensor_names)}
    \/ /\ {k \in 1 .. Len(c.include_regexes) : Matches(c.include_regexes[k], tname)} # {}
       /\ {k \in 1 .. Len(c.exclude_regexes) : Matches(c.exclude_regexes[k], tname)} = {}

\* C9: a tensor name is a member of a collection iff it was explicitly added
\* or matches an include pattern and no exclude pattern; the default weights
\* collection has "layer1.weight" and not "gradient.layer1.weight"; after
\* add_to_collection the added name is a member, and it stays one under
\* later include calls.
C9_Membership ==
    /\ [](Bound =>
            /\ \A i \in 1 .. Len(Current) : \A t \in TensorNames :
                  IsMember(Current[i], t) <=> MemberBySets(Current[i], t)
            /\ Fresh =>
                  /\ Has(Current, "weights")
                  /\ IsMember(CollectionOf(Current, "weights"), LayerWeight)
                  /\ ~IsMember(CollectionOf(Current, "weights"), GradientLayerWeight)
            /\ (ret.op = "add_to_collection" /\ ret.err = "none") =>
                  /\ Has(Current, ret.name)
                  /\ IsMember(CollectionOf(Current, ret.name), ret.tname))
    /\ [][(ret'.op = "include" /\ Bound /\ Bound') =>
             \A i \in 1 .. Len(Current) : \A t \in TensorNames :
                 InSeq(t, Current[i].tensor_names) =>
                     /\ Has(Current', Current[i].name)
                     /\ IsMember(CollectionOf(Current', Current[i].name), t)]_vars

\* "gradient.layer1.weight" was added to weights, is a member against the
\* default pattern, and a later include call has just added a pattern.
C9_Witness ==
    /\ ret.op = "include"
    /\ ret.changed
    /\ Bound
    /\ Has(Current, "weights")
    /\ CollectionOf(Current, "weights").include_regexes[1] = "^(?!gradient).*weight"
    /\ InSeq(GradientLayerWeight, CollectionOf(Current, "weights").tensor_names)
    /\ IsMember(CollectionOf(Current, "weights"), GradientLayerWeight)

\* C10: loading the saved form of a manager, with CollectionManager.load on
\* the saved file or with load_from_string on the saved string, yields a
\* manager with the same collections in the same order, each with the same
\* include patterns, exclude patterns and tensor names in the same order.
C10_RoundTrip ==
    /\ (ret.op = "load_from_string" /\ Bound) =>
          /\ ret.err = "none"
          /\ ret.value = _collection_manager
    /\ (ret.op = "load" /\ Bound /\ ret.name = SavedPath
          /\ files[SavedPath] = <<export_document(Current)>>) =>
          /\ ret.err = "none"
          /\ ret.value = _collection_manager

\* The half of C10 about CollectionManager.load on the saved file.
C10_LoadFileRoundTrip ==
    (ret.op = "load" /\ Bound /\ ret.name = SavedPath
       /\ files[SavedPath] = <<export_document(Current)>>) =>
       /\ ret.err = "none"
       /\ ret.value = _collection_manager

\* C11: after load_collections(path) succeeds, the current manager holds
\* exactly the collections of the loaded document, line by line; nothing of
\* the previous singleton (default collections, collections created by
\* get_collection or add_to_collection, explicit members) is left in it.
C11_LoadReplaces ==
    (ret.op = "load_collections" /\ ret.err = "none") =>
        LET doc == files[ret.name][1] IN
        /\ Bound
        /\ Len(Current) = Len(doc)
        /\ \A i \in 1 .. Len(doc) :
              /\ Current[i].name = doc[i][1]
              /\ Current[i].include_regexes = doc[i][2]
              /\ Current[i].exclude_regexes = doc[i][3]
              /\ Current[i].tensor_names = doc[i][4]

\* The shipped document, which has neither biases nor custom, has replaced
\* a different manager.
C11_Witness ==
    /\ ret.op = "load_collections"
    /\ ret.err = "none"
    /\ ret.changed
    /\ Bound
    /\ ~Has(Current, "biases")
    /\ ~Has(Current, "custom")
    /\ Len(Current) = 1

\* C18: when load_collections(path) fails, because the file is missing or
\* its document cannot be deserialized, the module-level singleton stays
\* bound to the manager it had, with every collection unchanged.
C18_FailedLoadKeepsManager ==
    [][(ret'.op = "load_collections" /\ ret'.err # "none") =>
          _collection_manager' = _collection_manager]_vars

\* A load of the corrupt document has failed on a manager that holds more
\* than the defaults.
C18_Witness ==
    /\ ret.op = "load_collections"
    /\ ret.err = "DeserializeError"
    /\ ret.name = CorruptPath
    /\ Bound
    /\ Has(Current, "custom")
    /\ CollectionOf(Current, "custom").tensor_names # <<>>

\* Tensor names the default patterns are tried on.
ProbeNames ==
    {LayerWeight, GradientLayerWeight,
     <<"layer1", "bias">>, <<"gradient", "layer1", "bias">>,
     <<"gradient">>, <<"layer1", "relu">>, <<"CrossEntropyLoss">>}

\* The manager holds weights, biases and gradients as the constructor
\* registered them: their default pattern only, no explicit names.
DefaultPopulated ==
    /\ Bound
    /\ \A n \in {"weights", "biases", "gradients"} :
          /\ Has(Current, n)
          /\ CollectionOf(Current, n) =
                 CollectionOf(CollectionManager_init(TRUE).cm, n)

\* C19: in a default-populated manager without explicit names, no tensor
\* name is in both gradients and weights, nor in both gradients and biases;
\* a name starting with "gradient" is in gradients and in neither of the
\* other two, even when it contains "weight" or "bias".
C19_GradientsDisjoint ==
    DefaultPopulated =>
        \A t \in ProbeNames :
            LET inG == IsMember(CollectionOf(Current, "gradients"), t)
                inW == IsMember(CollectionOf(Current, "weights"), t)
                inB == IsMember(CollectionOf(Current, "biases"), t)
            IN
            /\ ~(inG /\ inW)
            /\ ~(inG /\ inB)
            /\ (t[1] = "gradient") => (inG /\ ~inW /\ ~inB)
            /\ (t[1] # "gradient" /\ "weight" \in {t[k] : k \in 1 .. Len(t)}) => inW
            /\ (t[1] # "gradient" /\ "bias" \in {t[k] : k \in 1 .. Len(t)}) => inB

\* A default-populated manager after reset_collections() replaced another.
C19_Witness ==
    /\ DefaultPopulated
    /\ ret.op = "reset_collections"
    /\ ret.changed
    /\ pc = "idle"
    /\ IsMember(CollectionOf(Current, "gradients"), <<"gradient", "layer1", "bias">>)
    /\ IsMember(CollectionOf(Current, "biases"), <<"layer1", "bias">>)

----------------------------------------------------------------------------

Init == ProfileInit /\ CollectionInit

SpecProfile == Init /\ [][ProfileNext /\ UNCHANGED collectionVars]_vars

SpecCollection == Init /\ [][CollectionNext /\ UNCHANGED profileVars]_vars

====
